---------------------------- MODULE Spec2Model ----------------------------
(***************************************************************************)
(* Model of src/main.py: the Unified-Math tool server.                     *)
(*                                                                         *)
(* The program is a flat set of tool functions registered on one FastMCP   *)
(* server object, three input helpers (_as_number, _as_int, _as_list) and  *)
(* the process-wide generator of the random module.                        *)
(*                                                                         *)
(* Numbers.  A Python float is modelled by the exact rational it denotes,  *)
(* a pair <<n, d>> in lowest terms with d > 0; rounding, infinities and    *)
(* NaN are outside the model.  Routines whose value is not rational (sin,  *)
(* sqrt, log, ...) return an uninterpreted term over their arguments.      *)
(*                                                                         *)
(* Caller-supplied values.  A raw value is [t, v]: t is the Python type    *)
(* ("int", "float", "str", or "none" for any other type) and v a tuple of  *)
(* integers: <<n>> for an int, <<n, d>> for a float and the character      *)
(* codes for a str.                                                        *)
(*                                                                         *)
(* Failures.  A failed call carries the error it raised.  The raise        *)
(* statements of main.py are named by their message: "InvalidNumber"       *)
(* (line 20), "NotAnInteger" (26), "EmptyInput" (32, 174, 181),            *)
(* "DivisionByZero" (65, 77), "NegativeInput" (98, 128, 214),              *)
(* "NonPositiveInput" (110, 118), "InsufficientData" (188, 195) and        *)
(* "DimensionMismatch" (269).  An exception raised by the Python runtime   *)
(* or a library routine instead is "ValueError", "ZeroDivisionError" or    *)
(* "TypeError": the class of the exception, with no raise site in main.py. *)
(***************************************************************************)
EXTENDS Integers, Sequences, FiniteSets, TLC

VARIABLES
  catalog,   \* names of the tools registered on the server object (mcp)
  rng,       \* state of the generator of the random module
  req,       \* the call last handled: [op, args]
  res,       \* its outcome: [ok, val, err]
  first,     \* the first call handled since start, with its outcome
  inflight   \* per client: its random_int call, scheduled or run

vars == <<catalog, rng, req, res, first, inflight>>

---------------------------------------------------------------------------
(* Bounds of the model *)

\* longest string of characters given as a caller-supplied value
MaxStrLen == 5
\* longest list given to a list operation
MaxLen == 3
\* longest point given to manhattan_distance
MaxDim == 2
\* largest magnitude of the integers given to the integer operations
MaxInt == 4
\* the generator state has RngBits bits
RngBits == 4
\* largest magnitude of the bounds given to concurrent random_int calls
MaxRange == 1

---------------------------------------------------------------------------
(* Exact rationals *)

Abs(n) == IF n < 0 THEN -n ELSE n

RECURSIVE Euclid(_, _)
Euclid(a, b) == IF b = 0 THEN a ELSE Euclid(b, a % b)

RECURSIVE Pow(_, _)
Pow(b, e) == IF e = 0 THEN 1 ELSE b * Pow(b, e - 1)

Rat(n, d) ==
  LET s == IF d < 0 THEN -1 ELSE 1
      g == Euclid(Abs(n), Abs(d))
  IN  <<(s * n) \div g, (s * d) \div g>>

RAdd(p, q) == Rat(p[1] * q[2] + q[1] * p[2], p[2] * q[2])
RSub(p, q) == Rat(p[1] * q[2] - q[1] * p[2], p[2] * q[2])
RMul(p, q) == Rat(p[1] * q[1], p[2] * q[2])
RDiv(p, q) == Rat(p[1] * q[2], p[2] * q[1])
RAbs(p) == <<Abs(p[1]), p[2]>>
RLess(p, q) == p[1] * q[2] < q[1] * p[2]
RLeq(p, q) == p[1] * q[2] <= q[1] * p[2]
RFloor(p) == p[1] \div p[2]
RCeil(p) == -((-p[1]) \div p[2])
Zero == <<0, 1>>

---------------------------------------------------------------------------
(* Values, outcomes and caller-supplied values *)

NoVal == [k |-> "none", a |-> <<>>]
FloatVal(q) == [k |-> "float", a |-> q]
IntVal(n) == [k |-> "int", a |-> <<n>>]
Term(f, a) == [k |-> f, a |-> a]

Ok(v) == [ok |-> TRUE, val |-> v, err |-> "none"]
Fail(e) == [ok |-> FALSE, val |-> NoVal, err |-> e]

RawInt(n) == [t |-> "int", v |-> <<n>>]
RawFloat(n, d) == [t |-> "float", v |-> Rat(n, d)]
RawStr(s) == [t |-> "str", v |-> s]
RawNone == [t |-> "none", v |-> <<>>]

\* character codes of the alphabet of the modelled strings: space, "-", ".",
\* "0", "3" and "x" (a character of no numeric literal)
Code == [sp |-> 32, minus |-> 45, dot |-> 46, d0 |-> 48, d3 |-> 51, x |-> 120]
SP == Code.sp
MINUS == Code.minus
DOT == Code.dot
D0 == Code.d0
D3 == Code.d3
CX == Code.x
Chars == {SP, MINUS, DOT, D0, D3, CX}
Digits == {D0, D3}

---------------------------------------------------------------------------
(* float(x.strip()) on a string *)

RECURSIVE LStrip(_)
LStrip(s) == IF Len(s) > 0 /\ s[1] = SP THEN LStrip(Tail(s)) ELSE s

RECURSIVE RStrip(_)
RStrip(s) ==
  IF Len(s) > 0 /\ s[Len(s)] = SP THEN RStrip(SubSeq(s, 1, Len(s) - 1)) ELSE s

strip(s) == RStrip(LStrip(s))

AllDigits(s) == \A i \in 1..Len(s) : s[i] \in Digits

RECURSIVE DigitsValue(_)
DigitsValue(s) ==
  IF Len(s) = 0 THEN 0
  ELSE 10 * DigitsValue(SubSeq(s, 1, Len(s) - 1)) + (s[Len(s)] - D0)

\* the literal after its sign: digits, digits "." [digits] or "." digits
UnsignedLiteral(s) ==
  LET dots == {i \in 1..Len(s) : s[i] = DOT}
      p == IF dots = {} THEN Len(s) + 1 ELSE CHOOSE i \in dots : \A j \in dots : i <= j
      whole == SubSeq(s, 1, p - 1)
      frac == SubSeq(s, p + 1, Len(s))
  IN  IF AllDigits(whole) /\ AllDigits(frac) /\ Len(whole) + Len(frac) > 0
      THEN Ok(FloatVal(Rat(DigitsValue(whole) * Pow(10, Len(frac)) + DigitsValue(frac),
                           Pow(10, Len(frac)))))
      ELSE Fail("ValueError")

\* float(s) of a stripped string: an optional sign, then the literal
float_of_str(s) ==
  IF Len(s) > 0 /\ s[1] = MINUS
  THEN LET r == UnsignedLiteral(Tail(s))
       IN  IF r.ok THEN Ok(FloatVal(<<-r.val.a[1], r.val.a[2]>>)) ELSE r
  ELSE UnsignedLiteral(s)

---------------------------------------------------------------------------
(* The input helpers *)

_as_number(x) ==
  IF x.t = "int" THEN Ok(FloatVal(<<x.v[1], 1>>))
  ELSE IF x.t = "float" THEN Ok(FloatVal(x.v))
  ELSE IF x.t = "str" THEN float_of_str(strip(x.v))
  ELSE Fail("InvalidNumber")

\* float.is_integer()
is_integer(q) == q[1] % q[2] = 0

_as_int(x) ==
  LET val == _as_number(x)
  IN  IF ~val.ok THEN val
      ELSE IF ~is_integer(val.val.a) THEN Fail("NotAnInteger")
      ELSE Ok(IntVal(val.val.a[1] \div val.val.a[2]))

\* [_as_number(x) for x in data]: the elements in order, the first failure raised
RECURSIVE Comprehension(_, _, _)
Comprehension(data, i, acc) ==
  IF i > Len(data) THEN Ok(Term("list", acc))
  ELSE LET n == _as_number(data[i])
       IN  IF ~n.ok THEN n ELSE Comprehension(data, i + 1, acc \o n.val.a)

\* _as_list without the test for an empty list
_as_list_unchecked(data) == Comprehension(data, 1, <<>>)

_as_list(data) ==
  IF Len(data) = 0 THEN Fail("EmptyInput") ELSE Comprehension(data, 1, <<>>)

\* the i-th float of a list returned by _as_list, and their number
Nth(l, i) == <<l[2 * i - 1], l[2 * i]>>
Count(l) == Len(l) \div 2

---------------------------------------------------------------------------
(* Numeric routines of the runtime *)

RECURSIVE SumFrom(_, _, _)
SumFrom(l, i, acc) ==
  IF i > Count(l) THEN acc ELSE SumFrom(l, i + 1, RAdd(acc, Nth(l, i)))

RECURSIVE Fact(_)
Fact(n) == IF n = 0 THEN 1 ELSE n * Fact(n - 1)

IsSquare(n) == \E r \in 0..n : r * r = n
ISqrt(n) == CHOOSE r \in 0..n : r * r = n

\* math.sqrt of a non-negative rational: exact when the root is rational
SqrtVal(q) ==
  IF IsSquare(q[1]) /\ IsSquare(q[2])
  THEN FloatVal(<<ISqrt(q[1]), ISqrt(q[2])>>)
  ELSE Term("sqrt", q)

\* a % b on floats, b non-zero: the result has the sign of b
FloatMod(a, b) == RSub(a, RMul(b, <<RFloor(RDiv(a, b)), 1>>))

\* math.pow(x, y)
math_pow(x, y) ==
  IF x = Zero /\ RLess(y, Zero) THEN Fail("ValueError")
  ELSE IF RLess(x, Zero) /\ ~is_integer(y) THEN Fail("ValueError")
  ELSE IF is_integer(y) /\ y[1] >= 0
       THEN Ok(FloatVal(Rat(Pow(x[1], y[1]), Pow(x[2], y[1]))))
  ELSE IF is_integer(y)
       THEN Ok(FloatVal(Rat(Pow(x[2], -y[1]), Pow(x[1], -y[1]))))
  ELSE Ok(Term("pow", x \o y))

\* math.log(val, b) with val > 0: log(val) / log(b)
math_log(val, b) ==
  IF RLeq(b, Zero) THEN Fail("ValueError")
  ELSE IF b = <<1, 1>> THEN Fail("ZeroDivisionError")
  ELSE Ok(Term("log", val \o b))

\* round(x, digits) on a float: to the nearest multiple of 10^-digits, ties to even
RoundHalfEven(q) ==
  LET f == RFloor(q)
      twice == RSub(RMul(<<2, 1>>, q), <<2 * f, 1>>)
  IN  IF RLess(twice, <<1, 1>>) THEN f
      ELSE IF RLess(<<1, 1>>, twice) THEN f + 1
      ELSE IF f % 2 = 0 THEN f ELSE f + 1

py_round(q, nd) ==
  IF nd >= 0
  THEN Rat(RoundHalfEven(RMul(q, <<Pow(10, nd), 1>>)), Pow(10, nd))
  ELSE <<RoundHalfEven(RDiv(q, <<Pow(10, -nd), 1>>)) * Pow(10, -nd), 1>>

---------------------------------------------------------------------------
(* The generator of the random module *)

RngMod == Pow(2, RngBits)

RECURSIVE bit_length(_)
bit_length(n) == IF n = 0 THEN 0 ELSE 1 + bit_length(n \div 2)

\* one step of the generator, and the k high bits of the new state
NextRng(s) == (5 * s + 3) % RngMod
getrandbits(s, k) == NextRng(s) \div Pow(2, RngBits - k)

\* Random._randbelow_with_getrandbits(n): draw k bits until the draw is below n
RECURSIVE DrawBelow(_, _, _)
DrawBelow(n, k, s) ==
  IF getrandbits(s, k) >= n THEN DrawBelow(n, k, NextRng(s))
  ELSE [r |-> getrandbits(s, k), rng |-> NextRng(s)]

\* _randbelow with the first draw returned, whether below n or not
_randbelow_first_draw(n, s) ==
  [r |-> getrandbits(s, bit_length(n)), rng |-> NextRng(s)]

_randbelow(n, s) == DrawBelow(n, bit_length(n), s)

\* random.randint(a, b): [out, rng]
randint(a, b, s) ==
  IF b + 1 - a <= 0 THEN [out |-> Fail("ValueError"), rng |-> s]
  ELSE LET d == _randbelow(b + 1 - a, s)
       IN  [out |-> Ok(IntVal(a + d.r)), rng |-> d.rng]

---------------------------------------------------------------------------
(* 1. Basic arithmetic *)

add(numbers) ==
  LET l == _as_list(numbers)
  IN  IF ~l.ok THEN l ELSE Ok(FloatVal(SumFrom(l.val.a, 1, Zero)))

RECURSIVE MulLoop(_, _, _)
MulLoop(l, i, result) ==
  IF i > Count(l) THEN result ELSE MulLoop(l, i + 1, RMul(result, Nth(l, i)))

multiply(numbers) ==
  LET l == _as_list(numbers)
  IN  IF ~l.ok THEN l ELSE Ok(FloatVal(MulLoop(l.val.a, 1, <<1, 1>>)))

RECURSIVE SubLoop(_, _, _)
SubLoop(nums, i, result) ==
  IF i > Count(nums) THEN result ELSE SubLoop(nums, i + 1, RSub(result, Nth(nums, i)))

subtract(numbers) ==
  LET l == _as_list(numbers)
  IN  IF ~l.ok THEN l ELSE Ok(FloatVal(SubLoop(l.val.a, 2, Nth(l.val.a, 1))))

\* for n in nums[1:]: raise on n == 0, else result /= n
RECURSIVE DivLoop(_, _, _)
DivLoop(nums, i, result) ==
  IF i > Count(nums) THEN Ok(FloatVal(result))
  ELSE IF Nth(nums, i) = Zero THEN Fail("DivisionByZero")
  ELSE DivLoop(nums, i + 1, RDiv(result, Nth(nums, i)))

\* divide with the zero test applied to every element, the first included
divide_any_zero(numbers) ==
  LET l == _as_list(numbers)
  IN  IF ~l.ok THEN l
      ELSE IF Nth(l.val.a, 1) = Zero THEN Fail("DivisionByZero")
      ELSE DivLoop(l.val.a, 2, Nth(l.val.a, 1))

divide(numbers) ==
  LET l == _as_list(numbers)
  IN  IF ~l.ok THEN l ELSE DivLoop(l.val.a, 2, Nth(l.val.a, 1))

divide_multiple(numbers) ==
  LET l == _as_list(numbers)
  IN  IF ~l.ok THEN l ELSE DivLoop(l.val.a, 2, Nth(l.val.a, 1))

modulo(a, b) ==
  LET x == _as_number(a)
      y == _as_number(b)
  IN  IF ~x.ok THEN x
      ELSE IF ~y.ok THEN y
      ELSE IF y.val.a = Zero THEN Fail("ZeroDivisionError")
      ELSE Ok(FloatVal(FloatMod(x.val.a, y.val.a)))

power(base, exponent) ==
  LET x == _as_number(base)
      y == _as_number(exponent)
  IN  IF ~x.ok THEN x
      ELSE IF ~y.ok THEN y
      ELSE math_pow(x.val.a, y.val.a)

---------------------------------------------------------------------------
(* 2. Advanced math *)

sqrt(x) ==
  LET val == _as_number(x)
  IN  IF ~val.ok THEN val
      ELSE IF RLess(val.val.a, Zero) THEN Fail("NegativeInput")
      ELSE Ok(SqrtVal(val.val.a))

\* the default of the parameter base, 2.718281828, to the digits the integers
\* of the model carry
DefaultBase == RawFloat(2718, 1000)

log(x, base) ==
  LET val == _as_number(x)
      b == _as_number(base)
  IN  IF ~val.ok THEN val
      ELSE IF ~b.ok THEN b
      ELSE IF RLeq(val.val.a, Zero) THEN Fail("NonPositiveInput")
      ELSE math_log(val.val.a, b.val.a)

log10(x) ==
  LET val == _as_number(x)
  IN  IF ~val.ok THEN val
      ELSE IF RLeq(val.val.a, Zero) THEN Fail("NonPositiveInput")
      ELSE Ok(Term("log10", val.val.a))

---------------------------------------------------------------------------
(* 3. Number theory *)

factorial(x) ==
  LET n == _as_int(x)
  IN  IF ~n.ok THEN n
      ELSE IF n.val.a[1] < 0 THEN Fail("NegativeInput")
      ELSE Ok(IntVal(Fact(n.val.a[1])))

\* math.gcd and math.lcm: never negative
math_gcd(a, b) == Euclid(Abs(a), Abs(b))
math_lcm(a, b) ==
  IF a = 0 \/ b = 0 THEN 0 ELSE Abs((a \div math_gcd(a, b)) * b)

gcd(a, b) ==
  LET x == _as_int(a)
      y == _as_int(b)
  IN  IF ~x.ok THEN x
      ELSE IF ~y.ok THEN y
      ELSE Ok(IntVal(math_gcd(x.val.a[1], y.val.a[1])))

\* lcm with the sign of the product kept
lcm_signed(a, b) ==
  LET x == _as_int(a)
      y == _as_int(b)
  IN  IF ~x.ok THEN x
      ELSE IF ~y.ok THEN y
      ELSE Ok(IntVal((x.val.a[1] \div math_gcd(x.val.a[1], y.val.a[1])) * y.val.a[1]))

lcm(a, b) ==
  LET x == _as_int(a)
      y == _as_int(b)
  IN  IF ~x.ok THEN x
      ELSE IF ~y.ok THEN y
      ELSE Ok(IntVal(math_lcm(x.val.a[1], y.val.a[1])))

---------------------------------------------------------------------------
(* 4. Trigonometry *)

\* a tool that converts its argument and applies a routine with no domain error
Apply1(f, x) ==
  LET val == _as_number(x)
  IN  IF ~val.ok THEN val ELSE Ok(Term(f, val.val.a))

sin(x) == Apply1("sin", x)
cos(x) == Apply1("cos", x)
tan(x) == Apply1("tan", x)
degrees_to_radians(degrees) == Apply1("radians", degrees)
radians_to_degrees(radians) == Apply1("degrees", radians)

---------------------------------------------------------------------------
(* 5. Statistics: the data reaches the statistics module as the caller gave it *)

IsNum(x) == x.t \in {"int", "float"}
RawNum(x) == IF x.t = "int" THEN <<x.v[1], 1>> ELSE x.v
AllNum(data) == \A i \in 1..Len(data) : IsNum(data[i])
AllInt(data) == \A i \in 1..Len(data) : data[i].t = "int"
AllStr(data) == \A i \in 1..Len(data) : data[i].t = "str"

\* the result of the statistics module for data of type T: an int stays an int
\* when the value is whole
Convert(q, data) == IF AllInt(data) /\ q[2] = 1 THEN IntVal(q[1]) ELSE FloatVal(q)

RECURSIVE RawSum(_, _)
RawSum(data, i) ==
  IF i > Len(data) THEN Zero ELSE RAdd(RawNum(data[i]), RawSum(data, i + 1))

ArithMean(data) == RDiv(RawSum(data, 1), <<Len(data), 1>>)

RECURSIVE SumSq(_, _, _)
SumSq(data, xbar, i) ==
  IF i > Len(data) THEN Zero
  ELSE LET dev == RSub(RawNum(data[i]), xbar)
       IN  RAdd(RMul(dev, dev), SumSq(data, xbar, i + 1))

SampleVariance(data) == RDiv(SumSq(data, ArithMean(data), 1), <<Len(data) - 1, 1>>)

\* str < str: by character code, a proper prefix first
RECURSIVE StrLess(_, _)
StrLess(s, t) ==
  IF Len(t) = 0 THEN FALSE
  ELSE IF Len(s) = 0 THEN TRUE
  ELSE IF s[1] # t[1] THEN s[1] < t[1]
  ELSE StrLess(Tail(s), Tail(t))

\* x < y as sorted() evaluates it on two elements of one kind
RawLess(x, y) == IF x.t = "str" THEN StrLess(x.v, y.v) ELSE RLess(RawNum(x), RawNum(y))

\* an element of the data as a result value
RawVal(x) ==
  IF x.t = "int" THEN IntVal(x.v[1])
  ELSE IF x.t = "float" THEN FloatVal(x.v)
  ELSE IF x.t = "str" THEN Term("str", x.v)
  ELSE NoVal

\* statistics.mean, statistics.variance, statistics.stdev on non-empty data
statistics_mean(data) ==
  IF ~AllNum(data) THEN Fail("TypeError") ELSE Ok(Convert(ArithMean(data), data))

statistics_variance(data) ==
  IF Len(data) < 2 THEN Fail("ValueError")
  ELSE IF ~AllNum(data) THEN Fail("TypeError")
  ELSE Ok(Convert(SampleVariance(data), data))

statistics_stdev(data) ==
  IF Len(data) < 2 THEN Fail("ValueError")
  ELSE IF ~AllNum(data) THEN Fail("TypeError")
  ELSE Ok(SqrtVal(SampleVariance(data)))

\* statistics.median: sorted(data), then the middle element, or the mean of the
\* two middle elements.  sorted() compares no element of a list of one, and
\* raises on a str against a number and on anything of another type.
statistics_median(data) ==
  LET n == Len(data)
      sorted == SortSeq(data, RawLess)
      i == n \div 2
  IN  IF n = 1 THEN Ok(RawVal(data[1]))
      ELSE IF ~(AllNum(data) \/ AllStr(data)) THEN Fail("TypeError")
      ELSE IF n % 2 = 1 THEN Ok(RawVal(sorted[i + 1]))
      ELSE IF AllStr(data) THEN Fail("TypeError")
      ELSE Ok(FloatVal(RDiv(RAdd(RawNum(sorted[i]), RawNum(sorted[i + 1])), <<2, 1>>)))

mean(data) ==
  IF Len(data) = 0 THEN Fail("EmptyInput") ELSE statistics_mean(data)

median(data) ==
  IF Len(data) = 0 THEN Fail("EmptyInput") ELSE statistics_median(data)

\* stdev with the size test off by one
stdev_off_by_one(data) ==
  IF Len(data) < 1 THEN Fail("InsufficientData") ELSE statistics_stdev(data)

stdev(data) ==
  IF Len(data) < 2 THEN Fail("InsufficientData") ELSE statistics_stdev(data)

variance(data) ==
  IF Len(data) < 2 THEN Fail("InsufficientData") ELSE statistics_variance(data)

---------------------------------------------------------------------------
(* 6. Geometry *)

Sq(q) == RMul(q, q)

hypotenuse(a, b) ==
  LET x == _as_number(a)
      y == _as_number(b)
  IN  IF ~x.ok THEN x
      ELSE IF ~y.ok THEN y
      ELSE Ok(SqrtVal(RAdd(Sq(x.val.a), Sq(y.val.a))))

distance_2d(x1, y1, x2, y2) ==
  LET a == _as_number(x1)
      b == _as_number(y1)
      c == _as_number(x2)
      d == _as_number(y2)
  IN  IF ~a.ok THEN a
      ELSE IF ~b.ok THEN b
      ELSE IF ~c.ok THEN c
      ELSE IF ~d.ok THEN d
      ELSE Ok(SqrtVal(RAdd(Sq(RSub(a.val.a, c.val.a)), Sq(RSub(b.val.a, d.val.a)))))

circle_area(radius) ==
  LET r == _as_number(radius)
  IN  IF ~r.ok THEN r
      ELSE IF RLess(r.val.a, Zero) THEN Fail("NegativeInput")
      ELSE Ok(Term("pi_times", Sq(r.val.a)))

---------------------------------------------------------------------------
(* 7. Utilities and rounding *)

abs_val(x) ==
  LET val == _as_number(x)
  IN  IF ~val.ok THEN val ELSE Ok(FloatVal(RAbs(val.val.a)))

floor(x) ==
  LET val == _as_number(x)
  IN  IF ~val.ok THEN val ELSE Ok(IntVal(RFloor(val.val.a)))

ceil(x) ==
  LET val == _as_number(x)
  IN  IF ~val.ok THEN val ELSE Ok(IntVal(RCeil(val.val.a)))

round_num(x, digits) ==
  LET val == _as_number(x)
      nd == _as_int(digits)
  IN  IF ~val.ok THEN val
      ELSE IF ~nd.ok THEN nd
      ELSE Ok(FloatVal(py_round(val.val.a, nd.val.a[1])))

\* [out, rng]: the outcome and the generator state the call leaves
random_int(min_val, max_val, s) ==
  LET lo == _as_int(min_val)
      hi == _as_int(max_val)
  IN  IF ~lo.ok THEN [out |-> lo, rng |-> s]
      ELSE IF ~hi.ok THEN [out |-> hi, rng |-> s]
      ELSE randint(lo.val.a[1], hi.val.a[1], s)

get_pi == Ok(Term("pi", <<>>))
get_e == Ok(Term("e", <<>>))

---------------------------------------------------------------------------
(* 8. Distance between points *)

distance_3d(x1, y1, z1, x2, y2, z2) ==
  LET a == _as_number(x1)
      b == _as_number(y1)
      c == _as_number(z1)
      d == _as_number(x2)
      e == _as_number(y2)
      f == _as_number(z2)
  IN  IF ~a.ok THEN a
      ELSE IF ~b.ok THEN b
      ELSE IF ~c.ok THEN c
      ELSE IF ~d.ok THEN d
      ELSE IF ~e.ok THEN e
      ELSE IF ~f.ok THEN f
      ELSE Ok(SqrtVal(RAdd(RAdd(Sq(RSub(a.val.a, d.val.a)), Sq(RSub(b.val.a, e.val.a))),
                           Sq(RSub(c.val.a, f.val.a)))))

\* sum(abs(a - b) for a, b in zip(p1, p2))
RECURSIVE ZipSum(_, _, _)
ZipSum(p1, p2, i) ==
  IF i > Count(p1) \/ i > Count(p2) THEN Zero
  ELSE RAdd(RAbs(RSub(Nth(p1, i), Nth(p2, i))), ZipSum(p1, p2, i + 1))

\* manhattan_distance without the comparison of the lengths
manhattan_distance_zip(point1, point2) ==
  LET p1 == _as_list(point1)
      p2 == _as_list(point2)
  IN  IF ~p1.ok THEN p1
      ELSE IF ~p2.ok THEN p2
      ELSE Ok(FloatVal(ZipSum(p1.val.a, p2.val.a, 1)))

manhattan_distance(point1, point2) ==
  LET p1 == _as_list(point1)
      p2 == _as_list(point2)
  IN  IF ~p1.ok THEN p1
      ELSE IF ~p2.ok THEN p2
      ELSE IF Count(p1.val.a) # Count(p2.val.a) THEN Fail("DimensionMismatch")
      ELSE Ok(FloatVal(ZipSum(p1.val.a, p2.val.a, 1)))

absolute_difference(a, b) ==
  LET x == _as_number(a)
      y == _as_number(b)
  IN  IF ~x.ok THEN x
      ELSE IF ~y.ok THEN y
      ELSE Ok(FloatVal(RAbs(RSub(x.val.a, y.val.a))))

---------------------------------------------------------------------------
(* The server: the catalog of tools and the handling of a call *)

\* the functions decorated with @mcp.tool
Catalog ==
  {"add", "multiply", "subtract", "divide", "divide_multiple",
   "mean", "median", "stdev", "variance", "sqrt",
   "log10", "factorial", "sin", "cos", "tan",
   "degrees_to_radians", "radians_to_degrees", "circle_area", "abs_val", "floor",
   "ceil", "modulo", "power", "log", "gcd",
   "lcm", "hypotenuse", "round_num", "absolute_difference", "distance_2d",
   "distance_3d", "manhattan_distance", "random_int", "get_pi", "get_e"}

\* a tool that leaves the generator alone
Pure(out, s) == [out |-> out, rng |-> s]

\* the function registered under op, applied to the arguments of the call
Dispatch(op, args, s) ==
  CASE op = "add" -> Pure(add(args[1]), s)
    [] op = "multiply" -> Pure(multiply(args[1]), s)
    [] op = "subtract" -> Pure(subtract(args[1]), s)
    [] op = "divide" -> Pure(divide(args[1]), s)
    [] op = "divide_multiple" -> Pure(divide_multiple(args[1]), s)
    [] op = "mean" -> Pure(mean(args[1]), s)
    [] op = "median" -> Pure(median(args[1]), s)
    [] op = "stdev" -> Pure(stdev(args[1]), s)
    [] op = "variance" -> Pure(variance(args[1]), s)
    [] op = "sqrt" -> Pure(sqrt(args[1]), s)
    [] op = "log10" -> Pure(log10(args[1]), s)
    [] op = "factorial" -> Pure(factorial(args[1]), s)
    [] op = "sin" -> Pure(sin(args[1]), s)
    [] op = "cos" -> Pure(cos(args[1]), s)
    [] op = "tan" -> Pure(tan(args[1]), s)
    [] op = "degrees_to_radians" -> Pure(degrees_to_radians(args[1]), s)
    [] op = "radians_to_degrees" -> Pure(radians_to_degrees(args[1]), s)
    [] op = "circle_area" -> Pure(circle_area(args[1]), s)
    [] op = "abs_val" -> Pure(abs_val(args[1]), s)
    [] op = "floor" -> Pure(floor(args[1]), s)
    [] op = "ceil" -> Pure(ceil(args[1]), s)
    [] op = "modulo" -> Pure(modulo(args[1], args[2]), s)
    [] op = "power" -> Pure(power(args[1], args[2]), s)
    [] op = "log" -> Pure(log(args[1], args[2]), s)
    [] op = "gcd" -> Pure(gcd(args[1], args[2]), s)
    [] op = "lcm" -> Pure(lcm(args[1], args[2]), s)
    [] op = "hypotenuse" -> Pure(hypotenuse(args[1], args[2]), s)
    [] op = "round_num" -> Pure(round_num(args[1], args[2]), s)
    [] op = "absolute_difference" -> Pure(absolute_difference(args[1], args[2]), s)
    [] op = "distance_2d" -> Pure(distance_2d(args[1], args[2], args[3], args[4]), s)
    [] op = "distance_3d" ->
         Pure(distance_3d(args[1], args[2], args[3], args[4], args[5], args[6]), s)
    [] op = "manhattan_distance" -> Pure(manhattan_distance(args[1], args[2]), s)
    [] op = "random_int" -> random_int(args[1], args[2], s)
    [] op = "get_pi" -> Pure(get_pi, s)
    [] op = "get_e" -> Pure(get_e, s)

NoCall == [op |-> "none", args |-> <<>>]
Pending == [ok |-> FALSE, val |-> NoVal, err |-> "pending"]
NoFirst == [op |-> "none", args |-> <<>>, out |-> Pending]

\* the clients with a call in flight at one time, and a client with none
Clients == {"c1", "c2"}
Idle == [st |-> "idle", lo |-> 0, hi |-> 0, out |-> Pending]

---------------------------------------------------------------------------
(* Caller-supplied inputs *)

Strings == UNION {[1..n -> Chars] : n \in 0..MaxStrLen}

\* " 3.0 ", "3.3", "3", "-3", "x" and ""
SampleStrings ==
  {<<SP, D3, DOT, D0, SP>>, <<D3, DOT, D3>>, <<D3>>, <<MINUS, D3>>, <<CX>>, <<>>}

Scalars ==
  {RawInt(n) : n \in -MaxInt..MaxInt}
    \cup {RawFloat(1, 2), RawFloat(-3, 2), RawFloat(5, 2), RawFloat(4, 1)}
    \cup {RawStr(str) : str \in SampleStrings}
    \cup {RawNone}

Elems ==
  {RawInt(0), RawInt(2), RawInt(-3), RawFloat(1, 2), RawStr(<<D3>>),
   RawStr(<<SP, D3, DOT, D0, SP>>), RawStr(<<CX>>), RawNone}

Lists == UNION {[1..n -> Elems] : n \in 0..MaxLen}

PointElems == {RawInt(1), RawFloat(-1, 2), RawStr(<<D3>>), RawStr(<<CX>>)}
Points == UNION {[1..n -> PointElems] : n \in 0..MaxDim}

Coords == {RawInt(0), RawInt(3), RawFloat(1, 2), RawStr(<<CX>>)}

ListOps == {"add", "multiply", "subtract", "divide", "divide_multiple",
            "mean", "median", "stdev", "variance"}
UnaryOps ==
  {"sqrt", "log10", "factorial", "sin", "cos",
   "tan", "degrees_to_radians", "radians_to_degrees", "circle_area", "abs_val",
   "floor", "ceil"}
BinaryOps ==
  {"modulo", "power", "log", "gcd", "lcm",
   "hypotenuse", "round_num", "absolute_difference", "random_int"}

\* the call the host has received: a tool or a helper with arguments for it
Received ==
  \/ \E o \in ListOps \cup {"_as_list"}, l \in Lists : req = [op |-> o, args |-> <<l>>]
  \/ \E o \in UnaryOps \cup {"_as_number", "_as_int"}, x \in Scalars :
       req = [op |-> o, args |-> <<x>>]
  \/ \E str \in Strings : req = [op |-> "_as_int", args |-> <<RawStr(str)>>]
  \/ \E o \in BinaryOps, x \in Scalars, y \in Scalars : req = [op |-> o, args |-> <<x, y>>]
  \/ \E x \in Scalars : req = [op |-> "log", args |-> <<x, DefaultBase>>]
  \/ \E a \in [1..4 -> Coords] : req = [op |-> "distance_2d", args |-> a]
  \/ \E a \in [1..6 -> Coords] : req = [op |-> "distance_3d", args |-> a]
  \/ \E p \in Points, q \in Points : req = [op |-> "manhattan_distance", args |-> <<p, q>>]
  \/ \E o \in {"get_pi", "get_e"} : req = [op |-> o, args |-> <<>>]

\* the generator is read by random_int alone: for a call of any other tool one
\* generator state stands for all
Seeds(op) == IF op = "random_int" THEN 0..(RngMod - 1) ELSE {0}

---------------------------------------------------------------------------
(* Spec: one call, received by the host with the server started, and handled *)

Init ==
  /\ catalog = Catalog
  /\ Received
  /\ rng \in Seeds(req.op)
  /\ res = Pending
  /\ first = NoFirst
  /\ inflight = [c \in Clients |-> Idle]

\* the host looks the name up in the catalog and runs the function to its end:
\* d is what the function returns on the arguments of the call
Call(op, d) ==
  /\ req.op = op
  /\ op \in catalog
  /\ res = Pending
  /\ \E r \in {d} : res' = r.out /\ rng' = r.rng
  /\ UNCHANGED <<catalog, req, first, inflight>>

Add == Call("add", Pure(add(req.args[1]), rng))
Multiply == Call("multiply", Pure(multiply(req.args[1]), rng))
Subtract == Call("subtract", Pure(subtract(req.args[1]), rng))
Divide == Call("divide", Pure(divide(req.args[1]), rng))
DivideMultiple ==
  Call("divide_multiple",
       Pure(divide_multiple(req.args[1]), rng))
Mean == Call("mean", Pure(mean(req.args[1]), rng))
Median == Call("median", Pure(median(req.args[1]), rng))
Stdev == Call("stdev", Pure(stdev(req.args[1]), rng))
Variance == Call("variance", Pure(variance(req.args[1]), rng))
Sqrt == Call("sqrt", Pure(sqrt(req.args[1]), rng))
Log10 == Call("log10", Pure(log10(req.args[1]), rng))
Factorial == Call("factorial", Pure(factorial(req.args[1]), rng))
Sin == Call("sin", Pure(sin(req.args[1]), rng))
Cos == Call("cos", Pure(cos(req.args[1]), rng))
Tan == Call("tan", Pure(tan(req.args[1]), rng))
DegreesToRadians ==
  Call("degrees_to_radians",
       Pure(degrees_to_radians(req.args[1]), rng))
RadiansToDegrees ==
  Call("radians_to_degrees",
       Pure(radians_to_degrees(req.args[1]), rng))
CircleArea == Call("circle_area", Pure(circle_area(req.args[1]), rng))
AbsVal == Call("abs_val", Pure(abs_val(req.args[1]), rng))
Floor == Call("floor", Pure(floor(req.args[1]), rng))
Ceil == Call("ceil", Pure(ceil(req.args[1]), rng))
Modulo == Call("modulo", Pure(modulo(req.args[1], req.args[2]), rng))
Power == Call("power", Pure(power(req.args[1], req.args[2]), rng))
Log == Call("log", Pure(log(req.args[1], req.args[2]), rng))
Gcd == Call("gcd", Pure(gcd(req.args[1], req.args[2]), rng))
Lcm == Call("lcm", Pure(lcm(req.args[1], req.args[2]), rng))
Hypotenuse ==
  Call("hypotenuse",
       Pure(hypotenuse(req.args[1], req.args[2]), rng))
RoundNum == Call("round_num", Pure(round_num(req.args[1], req.args[2]), rng))
AbsoluteDifference ==
  Call("absolute_difference",
       Pure(absolute_difference(req.args[1], req.args[2]), rng))
Distance2d ==
  Call("distance_2d",
       Pure(distance_2d(req.args[1], req.args[2], req.args[3], req.args[4]), rng))
Distance3d ==
  Call("distance_3d",
       Pure(distance_3d(req.args[1], req.args[2], req.args[3],
                        req.args[4], req.args[5], req.args[6]), rng))
ManhattanDistance ==
  Call("manhattan_distance",
       Pure(manhattan_distance(req.args[1], req.args[2]), rng))
RandomInt == Call("random_int", random_int(req.args[1], req.args[2], rng))
GetPi == Call("get_pi", Pure(get_pi, rng))
GetE == Call("get_e", Pure(get_e, rng))

\* the helpers applied on their own
Helper(op, out) ==
  /\ req.op = op
  /\ res = Pending
  /\ res' = out
  /\ UNCHANGED <<catalog, rng, req, first, inflight>>

AsNumber == Helper("_as_number", _as_number(req.args[1]))
AsInt == Helper("_as_int", _as_int(req.args[1]))
AsList == Helper("_as_list", _as_list(req.args[1]))

Next ==
  \/ Add
  \/ Multiply
  \/ Subtract
  \/ Divide
  \/ DivideMultiple
  \/ Mean
  \/ Median
  \/ Stdev
  \/ Variance
  \/ Sqrt
  \/ Log10
  \/ Factorial
  \/ Sin
  \/ Cos
  \/ Tan
  \/ DegreesToRadians
  \/ RadiansToDegrees
  \/ CircleArea
  \/ AbsVal
  \/ Floor
  \/ Ceil
  \/ Modulo
  \/ Power
  \/ Log
  \/ Gcd
  \/ Lcm
  \/ Hypotenuse
  \/ RoundNum
  \/ AbsoluteDifference
  \/ Distance2d
  \/ Distance3d
  \/ ManhattanDistance
  \/ RandomInt
  \/ GetPi
  \/ GetE
  \/ AsNumber
  \/ AsInt
  \/ AsList

Spec == Init /\ [][Next]_vars

---------------------------------------------------------------------------
(* Properties of a handled call *)

Handled == res # Pending

\* the error kinds of the taxonomy
NamedKinds ==
  {"InvalidNumber", "NotAnInteger", "EmptyInput", "DivisionByZero",
   "NegativeInput", "NonPositiveInput", "InsufficientData", "DimensionMismatch"}

\* the caller-supplied value is a number or a string that parses as one
Numeric(x) == _as_number(x).ok
AllNumeric(L) == \A i \in 1..Len(L) : Numeric(L[i])
NumberOf(x) == _as_number(x).val.a

\* a result value as a number, whether the call returned an int or a float
AsRational(v) == IF v.k = "int" THEN <<v.a[1], 1>> ELSE v.a
SameOutcome(r1, r2) ==
  /\ r1.ok = r2.ok
  /\ r1.err = r2.err
  /\ IF r1.val.k \in {"int", "float"} /\ r2.val.k \in {"int", "float"}
     THEN AsRational(r1.val) = AsRational(r2.val)
     ELSE r1.val = r2.val

\* C1: every failing call of a catalog operation fails with a kind of the
\* taxonomy, never with an unnamed error of the runtime.
C1_Claim ==
  Handled /\ req.op \in Catalog /\ ~res.ok => res.err \in NamedKinds

\* the list with every element replaced by the float it denotes
Normalized(L) == [i \in 1..Len(L) |-> [t |-> "float", v |-> NumberOf(L[i])]]

\* C2: every list operation, mean, median, stdev and variance included, takes
\* a numeric string for the number it denotes (the call ends as it does on the
\* converted list) and fails with InvalidNumber on an element that is neither
\* a number nor a parseable string.
C2_Claim ==
  Handled /\ req.op \in ListOps =>
    LET L == req.args[1]
    IN  /\ AllNumeric(L) => SameOutcome(res, Dispatch(req.op, <<Normalized(L)>>, rng).out)
        /\ ~AllNumeric(L) => res = Fail("InvalidNumber")

\* L[1] / L[2] / ... / L[n], folded from the left
RECURSIVE FoldDiv(_, _)
FoldDiv(L, n) ==
  IF n = 1 THEN NumberOf(L[1]) ELSE RDiv(FoldDiv(L, n - 1), NumberOf(L[n]))

ZeroLater(L) == \E i \in 2..Len(L) : NumberOf(L[i]) = Zero

\* C3: on a non-empty list of valid numbers divide and divide_multiple fail
\* with DivisionByZero exactly when an element after the first is zero, and
\* otherwise return the left-to-right quotient (the element itself for a list
\* of one).
C3_Thm ==
  Handled /\ req.op \in {"divide", "divide_multiple"}
    /\ Len(req.args[1]) > 0 /\ AllNumeric(req.args[1]) =>
    LET L == req.args[1]
    IN  /\ (res = Fail("DivisionByZero")) <=> ZeroLater(L)
        /\ ~ZeroLater(L) => res = Ok(FloatVal(FoldDiv(L, Len(L))))
        /\ Len(L) = 1 => res = Ok(FloatVal(NumberOf(L[1])))

\* a zero in the leading position passes, a zero in the last position fails
C3_Witness ==
  /\ Handled /\ req.op = "divide" /\ Len(req.args[1]) = 3
  /\ AllNumeric(req.args[1])
  /\ NumberOf(req.args[1][1]) = Zero
  /\ NumberOf(req.args[1][2]) # Zero
  /\ NumberOf(req.args[1][3]) = Zero
  /\ res = Fail("DivisionByZero")

\* C4: _as_int fails with InvalidNumber when _as_number fails, returns the
\* integer equal to a number whose fractional part is zero, and fails with
\* NotAnInteger on a number whose fractional part is not zero.
C4_Claim ==
  Handled /\ req.op = "_as_int" =>
    LET x == req.args[1]
    IN  /\ ~Numeric(x) => res = Fail("InvalidNumber")
        /\ Numeric(x) /\ NumberOf(x)[2] = 1 => res = Ok(IntVal(NumberOf(x)[1]))
        /\ Numeric(x) /\ NumberOf(x)[2] # 1 => res = Fail("NotAnInteger")

FirstInvalid(L) ==
  CHOOSE i \in 1..Len(L) : ~Numeric(L[i]) /\ \A j \in 1..(i - 1) : Numeric(L[j])

\* C5: _as_list fails with EmptyInput on an empty sequence; on a sequence of
\* valid elements it returns their numbers, as many and in the same order; on
\* any other sequence it fails as _as_number fails on the first invalid
\* element.
C5_Thm ==
  Handled /\ req.op = "_as_list" =>
    LET L == req.args[1]
    IN  /\ Len(L) = 0 => res = Fail("EmptyInput")
        /\ Len(L) > 0 /\ AllNumeric(L) =>
             /\ res.ok
             /\ Count(res.val.a) = Len(L)
             /\ \A i \in 1..Len(L) : Nth(res.val.a, i) = NumberOf(L[i])
        /\ Len(L) > 0 /\ ~AllNumeric(L) => res = _as_number(L[FirstInvalid(L)])

\* two invalid elements that fail differently, after a valid one
C5_Witness ==
  /\ Handled /\ req.op = "_as_list" /\ Len(req.args[1]) = 3
  /\ Numeric(req.args[1][1])
  /\ ~Numeric(req.args[1][2]) /\ ~Numeric(req.args[1][3])
  /\ _as_number(req.args[1][2]) # _as_number(req.args[1][3])
  /\ res = _as_number(req.args[1][2])

\* the sum of |p[i] - q[i]| over the first n coordinates
RECURSIVE AbsDiffSum(_, _, _)
AbsDiffSum(p, q, n) ==
  IF n = 0 THEN Zero
  ELSE RAdd(AbsDiffSum(p, q, n - 1), RAbs(RSub(NumberOf(p[n]), NumberOf(q[n]))))

\* C6 as stated: on points of valid numbers manhattan_distance fails with
\* DimensionMismatch whenever the lengths differ, an empty point included, and
\* otherwise returns the sum of the coordinate differences.
C6_Claim ==
  Handled /\ req.op = "manhattan_distance"
    /\ AllNumeric(req.args[1]) /\ AllNumeric(req.args[2]) =>
    LET p == req.args[1]
        q == req.args[2]
    IN  IF Len(p) # Len(q) THEN res = Fail("DimensionMismatch")
        ELSE res = Ok(FloatVal(AbsDiffSum(p, q, Len(p))))

\* C6 amended: on points of valid numbers manhattan_distance fails with
\* EmptyInput when either point is empty; on two non-empty points it fails
\* with DimensionMismatch whenever the lengths differ and otherwise returns
\* the sum of the coordinate differences.
C6_Thm ==
  Handled /\ req.op = "manhattan_distance"
    /\ AllNumeric(req.args[1]) /\ AllNumeric(req.args[2]) =>
    LET p == req.args[1]
        q == req.args[2]
    IN  IF Len(p) = 0 \/ Len(q) = 0 THEN res = Fail("EmptyInput")
        ELSE IF Len(p) # Len(q) THEN res = Fail("DimensionMismatch")
        ELSE res = Ok(FloatVal(AbsDiffSum(p, q, Len(p))))

\* two non-empty points of valid numbers and of different lengths
C6_Witness ==
  /\ Handled /\ req.op = "manhattan_distance"
  /\ AllNumeric(req.args[1]) /\ AllNumeric(req.args[2])
  /\ Len(req.args[1]) = 2 /\ Len(req.args[2]) = 1
  /\ res = Fail("DimensionMismatch")

\* C7: stdev and variance fail with InsufficientData exactly on a list of
\* fewer than two elements, mean and median fail with EmptyInput exactly on
\* the empty list, and a list of numbers of sufficient size is computed.
C7_Thm ==
  Handled =>
    /\ req.op \in {"stdev", "variance"} =>
         /\ (res = Fail("InsufficientData")) <=> Len(req.args[1]) < 2
         /\ Len(req.args[1]) >= 2 /\ AllNum(req.args[1]) => res.ok
    /\ req.op \in {"mean", "median"} =>
         /\ (res = Fail("EmptyInput")) <=> Len(req.args[1]) = 0
         /\ Len(req.args[1]) >= 1 /\ AllNum(req.args[1]) => res.ok

\* stdev of a single number
C7_Witness ==
  /\ Handled /\ req.op = "stdev" /\ Len(req.args[1]) = 1
  /\ AllNum(req.args[1])
  /\ res = Fail("InsufficientData")

---------------------------------------------------------------------------
(* SpecSeq: the server handles one call after another *)

L1(x) == <<<<x>>>>
L2(x, y) == <<<<x, y>>>>

\* a call of every tool, and calls that fail
SeqCalls ==
  {[op |-> o, args |-> L2(RawInt(3), RawStr(<<D3, DOT, D3>>))] : o \in ListOps}
    \cup {[op |-> o, args |-> <<RawFloat(1, 2)>>] : o \in UnaryOps}
    \cup {[op |-> o, args |-> <<RawInt(3), RawInt(2)>>] : o \in BinaryOps}
    \cup {[op |-> o, args |-> <<>>] : o \in {"get_pi", "get_e"}}
    \cup {[op |-> "distance_2d", args |-> <<RawInt(0), RawInt(0), RawInt(3), RawInt(4)>>],
          [op |-> "distance_3d",
           args |-> <<RawInt(0), RawInt(0), RawInt(0), RawInt(1), RawInt(2), RawInt(2)>>],
          [op |-> "manhattan_distance", args |-> <<<<RawInt(1)>>, <<RawInt(3)>>>>],
          [op |-> "manhattan_distance", args |-> <<<<RawInt(1)>>, <<>>>>],
          [op |-> "add", args |-> L1(RawStr(<<CX>>))],
          [op |-> "mean", args |-> <<<<>>>>],
          [op |-> "divide", args |-> L2(RawInt(1), RawInt(0))],
          [op |-> "modulo", args |-> <<RawInt(1), RawInt(0)>>],
          [op |-> "sqrt", args |-> <<RawInt(-1)>>],
          [op |-> "factorial", args |-> <<RawFloat(1, 2)>>],
          [op |-> "random_int", args |-> <<RawInt(0), RawInt(3)>>],
          [op |-> "random_int", args |-> <<RawNone, RawInt(3)>>]}

InitSeq ==
  /\ catalog = Catalog
  /\ req = NoCall
  /\ res = Pending
  /\ rng \in 0..(RngMod - 1)
  /\ first = NoFirst
  /\ inflight = [c \in Clients |-> Idle]

\* Serve with a failure left behind: the call after a failed call fails as it did
ServeSticky(c) ==
  /\ c.op \in catalog
  /\ \E d \in {Dispatch(c.op, c.args, rng)} :
       \E out \in {IF res # Pending /\ ~res.ok THEN res ELSE d.out} :
         /\ req' = c
         /\ res' = out
         /\ rng' = d.rng
         /\ first' = IF first = NoFirst
                     THEN [op |-> c.op, args |-> c.args, out |-> out]
                     ELSE first
  /\ UNCHANGED <<catalog, inflight>>

\* the host looks the name up in the catalog, runs the function to its end and
\* returns its value or its error to the caller
Serve(c) ==
  /\ c.op \in catalog
  /\ \E d \in {Dispatch(c.op, c.args, rng)} :
       /\ req' = c
       /\ res' = d.out
       /\ rng' = d.rng
       /\ first' = IF first = NoFirst
                   THEN [op |-> c.op, args |-> c.args, out |-> d.out]
                   ELSE first
  /\ UNCHANGED <<catalog, inflight>>

NextSeq == \E c \in SeqCalls : Serve(c)

SpecSeq == InitSeq /\ [][NextSeq]_vars

\* C9: after any sequence of calls the catalog is as registered, every call
\* can still be made, and a call of a tool other than random_int ends as the
\* same call ended when it was the first call the server handled.
C9_Thm ==
  /\ catalog = Catalog
  /\ \A c \in SeqCalls : c.op \in catalog
  /\ req.op # "random_int" /\ first.op = req.op /\ first.args = req.args
       => res = first.out

\* a call that succeeds after a first call that failed
C9_Witness ==
  /\ first # NoFirst /\ ~first.out.ok
  /\ req.op # first.op
  /\ res.ok

---------------------------------------------------------------------------
(* SpecConc: random_int calls of several clients in flight at one time.  A   *)
(* tool is an async function with no await: once the event loop starts it,   *)
(* it runs to its end before any other call runs, and the loop starts every  *)
(* call it has scheduled.                                                    *)

\* the bounds of the calls: three ranges that overlap, and an empty one
RangeCalls ==
  {<<-MaxRange, 0>>, <<0, MaxRange>>, <<-MaxRange, MaxRange>>, <<MaxRange, -MaxRange>>}

\* the host receives a random_int call of client c and schedules it
Schedule(c) ==
  /\ inflight[c].st \in {"idle", "done"}
  /\ \E b \in RangeCalls :
       inflight' = [inflight EXCEPT ![c] =
                      [st |-> "scheduled", lo |-> b[1], hi |-> b[2], out |-> Pending]]
  /\ UNCHANGED <<catalog, rng, req, res, first>>

\* the event loop runs the scheduled call of client c to its end
RunRandomInt(c) ==
  /\ inflight[c].st = "scheduled"
  /\ "random_int" \in catalog
  /\ \E d \in {random_int(RawInt(inflight[c].lo), RawInt(inflight[c].hi), rng)} :
       /\ inflight' = [inflight EXCEPT ![c].st = "done", ![c].out = d.out]
       /\ rng' = d.rng
  /\ UNCHANGED <<catalog, req, res, first>>

NextConc ==
  \E c \in Clients :
    \/ Schedule(c)
    \/ RunRandomInt(c)

SpecConc ==
  /\ InitSeq
  /\ [][NextConc]_vars
  /\ \A c \in Clients : WF_vars(RunRandomInt(c))

InRange(c) ==
  inflight[c].st = "done" /\ inflight[c].lo <= inflight[c].hi =>
    /\ inflight[c].out.ok
    /\ inflight[c].out.val.k = "int"
    /\ inflight[c].lo <= inflight[c].out.val.a[1]
    /\ inflight[c].out.val.a[1] <= inflight[c].hi

=============================================================================
